---- MODULE Spec2Model ----
(***************************************************************************)
(* Model of downloadfullfinancedata.py: the StockDataDownloader class and  *)
(* the script entry point.  Strings whose characters matter (symbols,      *)
(* index names, filename stems) are sequences of one-character strings, so *)
(* that str.replace and f-string concatenation are computed, not assumed.  *)
(* A path os.path.join(dir, stem + ".csv") is the record [dir, stem].      *)
(***************************************************************************)
EXTENDS Integers, Sequences, FiniteSets, TLC

VARIABLES
  pc,             \* control location of the single thread
  caller,         \* who called bulk_download_stocks: "none", "nifty", "sensex", "direct"
  flaky,          \* environment: symbols for which the provider or the disk may fail
  dirs,           \* directories that exist (os.makedirs)
  written,        \* paths whose DataFrame.to_csv call completed
  trace,          \* external calls made so far (yf.download, to_csv, time.sleep), with results
  index_pos,      \* number of entries of indices_config the loop has taken
  catalog_source, \* "none", "remote" (line 72-73) or "fallback" (line 76-77)
  nifty_stocks,   \* run_full_download's local nifty_stocks
  sensex_stocks,  \* run_full_download's local sensex_stocks
  stock_list,     \* bulk_download_stocks' parameter
  save_path,      \* bulk_download_stocks' parameter
  idx,            \* enumerate(stock_list, 1) index of the current iteration (0 before the loop)
  success_count,  \* bulk_download_stocks' local
  total_stocks,   \* bulk_download_stocks' local
  ret,            \* value returned by bulk_download_stocks
  stats,          \* run_full_download's stats dictionary (the counts)
  summary,        \* <<>> until _print_summary logs the report, then <<stats reported>>
  top_log,        \* what the __main__ handlers logged: "none", "interrupted", "critical"
  exit_status     \* -1 while the process runs, then its exit status

vars == <<pc, caller, flaky, dirs, written, trace, index_pos, catalog_source,
          nifty_stocks, sensex_stocks, stock_list, save_path, idx, success_count,
          total_stocks, ret, stats, summary, top_log, exit_status>>

\* ---------------------------------------------------------------- bounds

\* Longest list handed to a direct call of bulk_download_stocks.
MaxLen == 3

\* Most rows of the remote constituent table.
MaxRows == 1

\* ------------------------------------------------------------- constants

NS == <<".","N","S">>

BO == <<".","B","O">>

base_path == "data"

nifty_path == "data/nifty50"

sensex_path == "data/sensex30"

\* _get_fallback_nifty50's list ('HDFCLIFE.NS' is listed twice in the source).
_get_fallback_nifty50 ==
  <<
    <<"A","D","A","N","I","P","O","R","T","S",".","N","S">>,
    <<"A","S","I","A","N","P","A","I","N","T",".","N","S">>,
    <<"A","X","I","S","B","A","N","K",".","N","S">>,
    <<"B","A","J","A","J","-","A","U","T","O",".","N","S">>,
    <<"B","A","J","F","I","N","A","N","C","E",".","N","S">>,
    <<"B","A","J","A","J","F","I","N","S","V",".","N","S">>,
    <<"B","P","C","L",".","N","S">>,
    <<"B","H","A","R","T","I","A","R","T","L",".","N","S">>,
    <<"C","I","P","L","A",".","N","S">>,
    <<"C","O","A","L","I","N","D","I","A",".","N","S">>,
    <<"D","R","R","E","D","D","Y",".","N","S">>,
    <<"E","I","C","H","E","R","M","O","T",".","N","S">>,
    <<"G","R","A","S","I","M",".","N","S">>,
    <<"H","C","L","T","E","C","H",".","N","S">>,
    <<"H","D","F","C","B","A","N","K",".","N","S">>,
    <<"H","D","F","C","L","I","F","E",".","N","S">>,
    <<"H","E","R","O","M","O","T","O","C","O",".","N","S">>,
    <<"H","I","N","D","A","L","C","O",".","N","S">>,
    <<"H","I","N","D","U","N","I","L","V","R",".","N","S">>,
    <<"I","C","I","C","I","B","A","N","K",".","N","S">>,
    <<"I","N","D","U","S","I","N","D","B","K",".","N","S">>,
    <<"I","N","F","Y",".","N","S">>,
    <<"I","T","C",".","N","S">>,
    <<"J","S","W","S","T","E","E","L",".","N","S">>,
    <<"K","O","T","A","K","B","A","N","K",".","N","S">>,
    <<"L","T",".","N","S">>,
    <<"M","&","M",".","N","S">>,
    <<"M","A","R","U","T","I",".","N","S">>,
    <<"N","E","S","T","L","E","I","N","D",".","N","S">>,
    <<"N","T","P","C",".","N","S">>,
    <<"O","N","G","C",".","N","S">>,
    <<"P","O","W","E","R","G","R","I","D",".","N","S">>,
    <<"R","E","L","I","A","N","C","E",".","N","S">>,
    <<"S","B","I","N",".","N","S">>,
    <<"S","U","N","P","H","A","R","M","A",".","N","S">>,
    <<"T","A","T","A","M","O","T","O","R","S",".","N","S">>,
    <<"T","A","T","A","S","T","E","E","L",".","N","S">>,
    <<"T","C","S",".","N","S">>,
    <<"T","E","C","H","M",".","N","S">>,
    <<"T","I","T","A","N",".","N","S">>,
    <<"U","L","T","R","A","C","E","M","C","O",".","N","S">>,
    <<"W","I","P","R","O",".","N","S">>,
    <<"A","D","A","N","I","E","N","T",".","N","S">>,
    <<"A","P","O","L","L","O","H","O","S","P",".","N","S">>,
    <<"B","R","I","T","A","N","N","I","A",".","N","S">>,
    <<"D","I","V","I","S","L","A","B",".","N","S">>,
    <<"H","D","F","C","L","I","F","E",".","N","S">>,
    <<"L","T","I","M",".","N","S">>,
    <<"S","B","I","L","I","F","E",".","N","S">>,
    <<"T","A","T","A","C","O","N","S","U","M",".","N","S">>
  >>

\* get_sensex30_stocks' list.
get_sensex30_stocks ==
  <<
    <<"R","E","L","I","A","N","C","E",".","B","O">>,
    <<"T","C","S",".","B","O">>,
    <<"H","D","F","C","B","A","N","K",".","B","O">>,
    <<"I","N","F","Y",".","B","O">>,
    <<"I","C","I","C","I","B","A","N","K",".","B","O">>,
    <<"H","I","N","D","U","N","I","L","V","R",".","B","O">>,
    <<"I","T","C",".","B","O">>,
    <<"S","B","I","N",".","B","O">>,
    <<"B","H","A","R","T","I","A","R","T","L",".","B","O">>,
    <<"B","A","J","F","I","N","A","N","C","E",".","B","O">>,
    <<"K","O","T","A","K","B","A","N","K",".","B","O">>,
    <<"L","T",".","B","O">>,
    <<"A","X","I","S","B","A","N","K",".","B","O">>,
    <<"A","S","I","A","N","P","A","I","N","T",".","B","O">>,
    <<"M","A","R","U","T","I",".","B","O">>,
    <<"S","U","N","P","H","A","R","M","A",".","B","O">>,
    <<"T","I","T","A","N",".","B","O">>,
    <<"U","L","T","R","A","C","E","M","C","O",".","B","O">>,
    <<"N","E","S","T","L","E","I","N","D",".","B","O">>,
    <<"T","A","T","A","M","O","T","O","R","S",".","B","O">>,
    <<"M","&","M",".","B","O">>,
    <<"H","C","L","T","E","C","H",".","B","O">>,
    <<"P","O","W","E","R","G","R","I","D",".","B","O">>,
    <<"N","T","P","C",".","B","O">>,
    <<"W","I","P","R","O",".","B","O">>,
    <<"T","A","T","A","S","T","E","E","L",".","B","O">>,
    <<"B","A","J","A","J","F","I","N","S","V",".","B","O">>,
    <<"T","E","C","H","M",".","B","O">>,
    <<"I","N","D","U","S","I","N","D","B","K",".","B","O">>,
    <<"J","S","W","S","T","E","E","L",".","B","O">>
  >>

\* Mutation of indices_config: the first two entries swapped.
indices_config_Reordered ==
  << [symbol |-> <<"^","B","S","E","S","N">>,         name |-> <<"S","E","N","S","E","X">>],
     [symbol |-> <<"^","N","S","E","I">>,             name |-> <<"N","I","F","T","Y","5","0">>],
     [symbol |-> <<"^","N","S","E","B","A","N","K">>, name |-> <<"B","A","N","K","N","I","F","T","Y">>] >>

\* download_market_indices' indices_config, in insertion order.
indices_config ==
  << [symbol |-> <<"^","N","S","E","I">>,             name |-> <<"N","I","F","T","Y","5","0">>],
     [symbol |-> <<"^","B","S","E","S","N">>,         name |-> <<"S","E","N","S","E","X">>],
     [symbol |-> <<"^","N","S","E","B","A","N","K">>, name |-> <<"B","A","N","K","N","I","F","T","Y">>] >>

\* ------------------------------------------------------------ environment

\* What one fetch-and-store attempt can meet: a non-empty series that is written
\* ("data"), a non-empty series whose to_csv raises ("write_error"), an empty
\* series ("empty"), or yf.download raising ("fetch_error").
AllOutcomes == {"data", "write_error", "empty", "fetch_error"}

Outcomes(symbol) == IF symbol \in flaky THEN AllOutcomes ELSE {"data"}

IndexSymbols == {indices_config[i].symbol : i \in 1..Len(indices_config)}

\* Values of the remote table's 'Symbol' column.
Tickers == {<<"T","C","S">>, <<"M","&","M">>}

StockFlaky == {<<"M","&","M",".","N","S">>, <<"M","&","M",".","B","O">>}
                \cup {t \o NS : t \in Tickers}

\* Symbols of the lists given to a direct call.
BulkSymbols == {<<"M","&","M",".","N","S">>, <<"M","&","M",".","B","O">>,
                <<"T","C","S",".","N","S",".","N","S">>}

SeqsUpTo(S, n) == UNION {[1..k -> S] : k \in 0..n}

\* pd.read_csv(nse_url) and df['Symbol']: the three failures, or a parsed table.
RemoteOutcomes ==
  {[kind |-> k, rows |-> <<>>] : k \in {"unreachable", "unparsable", "no_symbol_column"}}
    \cup {[kind |-> "table", rows |-> r] : r \in SeqsUpTo(Tickers, MaxRows)}

\* ------------------------------------------------------------ pure parts

\* Python's str.replace(old, new): left to right, occurrences do not overlap.
RECURSIVE replace(_, _, _)
replace(s, old, new) ==
  IF Len(s) < Len(old) THEN s
  ELSE IF SubSeq(s, 1, Len(old)) = old
       THEN new \o replace(SubSeq(s, Len(old) + 1, Len(s)), old, new)
       ELSE <<Head(s)>> \o replace(Tail(s), old, new)

\* Line 149: symbol.replace('.NS', '').replace('.BO', '').
clean_symbol(symbol) == replace(replace(symbol, NS, <<>>), BO, <<>>)

\* Line 150: os.path.join(save_path, f"{clean_symbol}.csv").
StockFilename(path, symbol) == [dir |-> path, stem |-> clean_symbol(symbol)]

\* Line 218: os.path.join(self.base_path, f"{name}_index.csv").
IndexFilename(name) == [dir |-> base_path, stem |-> name \o <<"_","i","n","d","e","x">>]

Event(op, sym, file, res) == [op |-> op, sym |-> sym, dir |-> file.dir, stem |-> file.stem, res |-> res]

NoFile == [dir |-> "", stem |-> <<>>]

\* The external calls of one fetch-and-store attempt (lines 139-153 and 215-219):
\* yf.download always; to_csv only when the series is not empty.
AttemptEvents(symbol, file, outcome) ==
  CASE outcome = "fetch_error" -> <<Event("download", symbol, NoFile, "error")>>
    [] outcome = "empty"       -> <<Event("download", symbol, NoFile, "empty")>>
    [] outcome = "write_error" -> <<Event("download", symbol, NoFile, "data"),
                                    Event("to_csv", symbol, file, "error")>>
    [] outcome = "data"        -> <<Event("download", symbol, NoFile, "data"),
                                    Event("to_csv", symbol, file, "ok")>>

\* Mutation of AttemptWritten: the empty series is written too (the test of line
\* 147 dropped).
AttemptWritten_OnEmpty(files, file, outcome) ==
  IF outcome \in {"data", "empty"} THEN files \cup {file} ELSE files

\* The files on disk after one attempt: to_csv completes only for "data".
AttemptWritten(files, file, outcome) ==
  IF outcome = "data" THEN files \cup {file} ELSE files

\* download_single_stock's return value (lines 155, 158, 162).
download_single_stock(outcome) == outcome = "data"

\* Mutation of CountAfter: counted once the series is not empty, before the write.
CountAfter_BeforeWrite(count, outcome) ==
  IF outcome \in {"data", "write_error"} THEN count + 1 ELSE count

\* Lines 186-187: success_count += 1 when download_single_stock returned True.
CountAfter(count, outcome) ==
  IF download_single_stock(outcome) THEN count + 1 ELSE count

\* Mutation of SleepEvents: no delay after the last symbol.
SleepEvents_NotAfterLast(i, n) ==
  IF i = n THEN <<>> ELSE <<Event("sleep", <<>>, NoFile, "ok")>>

\* Line 190: time.sleep(0.5), after every iteration.
SleepEvents(i, n) == <<Event("sleep", <<>>, NoFile, "ok")>>

\* Line 71: [f"{symbol}.NS" for symbol in df['Symbol'].tolist()].
RemoteSymbols(rows) == [i \in 1..Len(rows) |-> rows[i] \o NS]

\* get_nifty50_stocks' return value for one outcome of the remote fetch.
get_nifty50_stocks(remote) ==
  IF remote.kind = "table" THEN RemoteSymbols(remote.rows) ELSE _get_fallback_nifty50

CatalogSource(remote) == IF remote.kind = "table" THEN "remote" ELSE "fallback"

\* Mutation of indices_downloaded: the number of index files written.
indices_downloaded_Written == Cardinality({f \in written : f.dir = base_path})

\* Line 262: stats['indices_downloaded'] = 3.
indices_downloaded == 3

ZeroStats == [indices_downloaded |-> 0, nifty_success |-> 0, nifty_total |-> 0,
              sensex_success |-> 0, sensex_total |-> 0]

\* ---------------------------------------------------------------- states

\* The script: python downloadfullfinancedata.py, before main() runs.
InitScript ==
  /\ pc = "main"
  /\ caller = "none"
  /\ flaky \in {IndexSymbols, StockFlaky}
  /\ dirs = {}
  /\ stock_list = <<>>
  /\ save_path = ""

\* A direct call of bulk_download_stocks on a constructed downloader.
InitDirect ==
  /\ pc = "bulk_entry"
  /\ caller = "direct"
  /\ flaky = BulkSymbols
  /\ dirs = {base_path, nifty_path, sensex_path}
  /\ stock_list \in SeqsUpTo(BulkSymbols, MaxLen)
  /\ save_path = nifty_path

Init ==
  /\ InitScript \/ InitDirect
  /\ written = {}
  /\ trace = <<>>
  /\ index_pos = 0
  /\ catalog_source = "none"
  /\ nifty_stocks = <<>>
  /\ sensex_stocks = <<>>
  /\ idx = 0
  /\ success_count = 0
  /\ total_stocks = 0
  /\ ret = [success |-> 0, total |-> 0]
  /\ stats = ZeroStats
  /\ summary = <<>>
  /\ top_log = "none"
  /\ exit_status = -1

\* --------------------------------------------------------------- actions

\* main(): StockDataDownloader(base_path="data") and _setup_directories.
Construct ==
  /\ pc = "main"
  /\ dirs' = {base_path, nifty_path, sensex_path}
  /\ pc' = "run_init"
  /\ UNCHANGED <<caller, flaky, written, trace, index_pos, catalog_source, nifty_stocks,
                 sensex_stocks, stock_list, save_path, idx, success_count, total_stocks,
                 ret, stats, summary, top_log, exit_status>>

\* run_full_download, lines 238-260: the date range and the zeroed stats.
RunInit ==
  /\ pc = "run_init"
  /\ stats' = ZeroStats
  /\ index_pos' = 0
  /\ pc' = "indices"
  /\ UNCHANGED <<caller, flaky, dirs, written, trace, catalog_source, nifty_stocks,
                 sensex_stocks, stock_list, save_path, idx, success_count, total_stocks,
                 ret, summary, top_log, exit_status>>

\* download_market_indices: one iteration of the loop over indices_config.
IndexStep ==
  /\ pc = "indices"
  /\ index_pos < Len(indices_config)
  /\ LET entry == indices_config[index_pos + 1]
         file  == IndexFilename(entry.name)
     IN \E outcome \in Outcomes(entry.symbol) :
          /\ trace' = trace \o AttemptEvents(entry.symbol, file, outcome)
          /\ written' = AttemptWritten(written, file, outcome)
  /\ index_pos' = index_pos + 1
  /\ UNCHANGED <<pc, caller, flaky, dirs, catalog_source, nifty_stocks, sensex_stocks,
                 stock_list, save_path, idx, success_count, total_stocks, ret, stats,
                 summary, top_log, exit_status>>

\* download_market_indices returns; line 262 sets the count.
IndicesReturn ==
  /\ pc = "indices"
  /\ index_pos = Len(indices_config)
  /\ stats' = [stats EXCEPT !.indices_downloaded = indices_downloaded]
  /\ pc' = "resolve_nifty"
  /\ UNCHANGED <<caller, flaky, dirs, written, trace, index_pos, catalog_source,
                 nifty_stocks, sensex_stocks, stock_list, save_path, idx, success_count,
                 total_stocks, ret, summary, top_log, exit_status>>

\* Lines 268-271: get_nifty50_stocks, then the call of bulk_download_stocks (a new
\* activation: its locals are not set yet).
ResolveNifty ==
  /\ pc = "resolve_nifty"
  /\ \E remote \in RemoteOutcomes :
       /\ nifty_stocks' = get_nifty50_stocks(remote)
       /\ catalog_source' = CatalogSource(remote)
  /\ stock_list' = nifty_stocks'
  /\ save_path' = nifty_path
  /\ caller' = "nifty"
  /\ idx' = 0
  /\ success_count' = 0
  /\ total_stocks' = 0
  /\ pc' = "bulk_entry"
  /\ UNCHANGED <<flaky, dirs, written, trace, index_pos, sensex_stocks, ret, stats,
                 summary, top_log, exit_status>>

\* bulk_download_stocks, lines 178-181.
BulkStart ==
  /\ pc = "bulk_entry"
  /\ success_count' = 0
  /\ total_stocks' = Len(stock_list)
  /\ pc' = "bulk_loop"
  /\ UNCHANGED <<caller, flaky, dirs, written, trace, index_pos, catalog_source,
                 nifty_stocks, sensex_stocks, stock_list, save_path, idx, ret, stats,
                 summary, top_log, exit_status>>

\* Lines 183-187: the next symbol, download_single_stock, the count.
BulkDownload ==
  /\ pc = "bulk_loop"
  /\ idx < Len(stock_list)
  /\ idx' = idx + 1
  /\ LET stock == stock_list[idx + 1]
         file  == StockFilename(save_path, stock)
     IN \E outcome \in Outcomes(stock) :
          /\ trace' = trace \o AttemptEvents(stock, file, outcome)
          /\ written' = AttemptWritten(written, file, outcome)
          /\ success_count' = CountAfter(success_count, outcome)
  /\ pc' = "bulk_sleep"
  /\ UNCHANGED <<caller, flaky, dirs, index_pos, catalog_source, nifty_stocks,
                 sensex_stocks, stock_list, save_path, total_stocks, ret, stats, summary,
                 top_log, exit_status>>

\* Line 190: the delay that ends every iteration.
BulkSleep ==
  /\ pc = "bulk_sleep"
  /\ trace' = trace \o SleepEvents(idx, Len(stock_list))
  /\ pc' = "bulk_loop"
  /\ UNCHANGED <<caller, flaky, dirs, written, index_pos, catalog_source, nifty_stocks,
                 sensex_stocks, stock_list, save_path, idx, success_count, total_stocks,
                 ret, stats, summary, top_log, exit_status>>

\* Mutation of ReturnSite: the first bulk call returns past the second one.
ReturnSite_SkipsSensex(c) ==
  CASE c = "nifty"  -> "after_sensex"
    [] c = "sensex" -> "after_sensex"
    [] OTHER        -> "returned"

\* Where bulk_download_stocks returns to.
ReturnSite(c) ==
  CASE c = "nifty"  -> "after_nifty"
    [] c = "sensex" -> "after_sensex"
    [] OTHER        -> "returned"

\* Mutation of BulkReturn: the loop also ends after an iteration that met an error.
BulkReturn_AfterError ==
  /\ pc = "bulk_loop"
  /\ \/ idx = Len(stock_list)
     \/ Len(trace) >= 2 /\ trace[Len(trace) - 1].res = "error"
  /\ ret' = [success |-> success_count, total |-> total_stocks]
  /\ pc' = ReturnSite(caller)
  /\ UNCHANGED <<caller, flaky, dirs, written, trace, index_pos, catalog_source,
                 nifty_stocks, sensex_stocks, stock_list, save_path, idx, success_count,
                 total_stocks, stats, summary, top_log, exit_status>>

\* Lines 192-193: the loop is exhausted; return success_count, total_stocks.
BulkReturn ==
  /\ pc = "bulk_loop"
  /\ idx = Len(stock_list)
  /\ ret' = [success |-> success_count, total |-> total_stocks]
  /\ pc' = ReturnSite(caller)
  /\ UNCHANGED <<caller, flaky, dirs, written, trace, index_pos, catalog_source,
                 nifty_stocks, sensex_stocks, stock_list, save_path, idx, success_count,
                 total_stocks, stats, summary, top_log, exit_status>>

\* Lines 272-282: the Nifty tally, get_sensex30_stocks, the second bulk call.
AfterNifty ==
  /\ pc = "after_nifty"
  /\ stats' = [stats EXCEPT !.nifty_success = ret.success, !.nifty_total = ret.total]
  /\ sensex_stocks' = get_sensex30_stocks
  /\ stock_list' = get_sensex30_stocks
  /\ save_path' = sensex_path
  /\ caller' = "sensex"
  /\ idx' = 0
  /\ success_count' = 0
  /\ total_stocks' = 0
  /\ pc' = "bulk_entry"
  /\ UNCHANGED <<flaky, dirs, written, trace, index_pos, catalog_source, nifty_stocks,
                 ret, summary, top_log, exit_status>>

\* Lines 283-287: the Sensex tally and _print_summary.
AfterSensex ==
  /\ pc = "after_sensex"
  /\ stats' = [stats EXCEPT !.sensex_success = ret.success, !.sensex_total = ret.total]
  /\ summary' = <<stats'>>
  /\ caller' = "none"
  /\ pc' = "summarized"
  /\ UNCHANGED <<flaky, dirs, written, trace, index_pos, catalog_source, nifty_stocks,
                 sensex_stocks, stock_list, save_path, idx, success_count, total_stocks,
                 ret, top_log, exit_status>>

\* Lines 289, 325 and 334: stats is returned, main() returns, the script ends.
Finish ==
  /\ pc = "summarized"
  /\ exit_status' = 0
  /\ pc' = "exited"
  /\ UNCHANGED <<caller, flaky, dirs, written, trace, index_pos, catalog_source,
                 nifty_stocks, sensex_stocks, stock_list, save_path, idx, success_count,
                 total_stocks, ret, stats, summary, top_log>>

\* What the handlers of lines 335-338 log for what reaches them.
HandlerLog(kind) == IF kind = "interrupt" THEN "interrupted" ELSE "critical"

\* The exit status after a handler of lines 335-338 ran: the handler logs and the
\* script falls off its end.
HandlerExit(kind) == 0

\* Lines 333-338: a KeyboardInterrupt, or an exception raised outside the try
\* blocks of lines 67, 135 and 213, unwinds to __main__, is logged there, and the
\* script ends.
Raise ==
  /\ caller # "direct"
  /\ pc # "exited"
  /\ \E kind \in {"interrupt", "error"} :
       /\ top_log' = HandlerLog(kind)
       /\ exit_status' = HandlerExit(kind)
  /\ pc' = "exited"
  /\ UNCHANGED <<caller, flaky, dirs, written, trace, index_pos, catalog_source,
                 nifty_stocks, sensex_stocks, stock_list, save_path, idx, success_count,
                 total_stocks, ret, stats, summary>>

Next ==
  \/ Construct
  \/ RunInit
  \/ IndexStep
  \/ IndicesReturn
  \/ ResolveNifty
  \/ BulkStart
  \/ BulkDownload
  \/ BulkSleep
  \/ BulkReturn
  \/ AfterNifty
  \/ AfterSensex
  \/ Finish
  \/ Raise

Spec == Init /\ [][Next]_vars

\* ------------------------------------------------- reading the call trace

IsDownload(e) == e.op = "download"

IsSleep(e) == e.op = "sleep"

IsIndexDownload(e) == e.op = "download" /\ e.sym \in IndexSymbols

IsStockDownload(e) == e.op = "download" /\ e.sym \notin IndexSymbols

SymsOf(events) == [i \in 1..Len(events) |-> events[i].sym]

Positions(Test(_)) == {i \in 1..Len(trace) : Test(trace[i])}

\* The to_csv calls that completed into directory d.
CompletedWrites(d) ==
  {i \in 1..Len(trace) : trace[i].op = "to_csv" /\ trace[i].res = "ok" /\ trace[i].dir = d}

\* What the k-th yf.download call met, read back from the calls that followed it.
OutcomeOfCall(i) ==
  CASE trace[i].res = "error" -> "fetch_error"
    [] trace[i].res = "empty" -> "empty"
    [] OTHER -> IF i < Len(trace) /\ trace[i + 1].op = "to_csv" /\ trace[i + 1].res = "ok"
                THEN "data" ELSE "write_error"

\* The i-th call was a yf.download that met outcome o.
Met(i, o) == i <= Len(trace) /\ trace[i].op = "download" /\ OutcomeOfCall(i) = o

\* Positions of the current list whose fetch returned rows and whose write completed.
StoredPositions ==
  {i \in Positions(IsStockDownload) :
     /\ trace[i].res = "data"
     /\ i < Len(trace)
     /\ trace[i + 1].op = "to_csv"
     /\ trace[i + 1].res = "ok"
     /\ trace[i + 1].dir = save_path}

AtReturnSite == pc \in {"returned", "after_nifty", "after_sensex"}

\* The phase of section 4.5 that a control location belongs to.
Phase ==
  CASE caller = "direct"                         -> "Direct"
    [] pc = "main"                               -> "NotStarted"
    [] pc = "run_init"                           -> "Init"
    [] pc = "indices"                            -> "FetchingIndices"
    [] pc = "resolve_nifty"                      -> "FetchingPrimaryGroup"
    [] pc = "after_nifty"                        -> "FetchingPrimaryGroup"
    [] pc = "after_sensex"                       -> "FetchingSecondaryGroup"
    [] pc = "summarized"                         -> "Summarized"
    [] pc = "exited" /\ summary # <<>>           -> "Summarized"
    [] pc = "exited"                             -> "Aborted"
    [] caller = "nifty"                          -> "FetchingPrimaryGroup"
    [] caller = "sensex"                         -> "FetchingSecondaryGroup"
    [] OTHER                                     -> "Unknown"

PhaseOrder ==
  {<<"NotStarted", "Init">>,
   <<"Init", "FetchingIndices">>,
   <<"FetchingIndices", "FetchingPrimaryGroup">>,
   <<"FetchingPrimaryGroup", "FetchingSecondaryGroup">>,
   <<"FetchingSecondaryGroup", "Summarized">>}

\* ----------------------------------------------------------------- claims

\* C1: bulk_download_stocks always comes to its return, and returns (success, total)
\* with total = N, 0 <= success <= N and success = the number of list positions
\* whose fetch returned a non-empty series and whose write completed; for the list
\* [non-empty, empty, transport error] it returns (1, 3) and one file is written.
C1_Tally ==
  /\ (pc \in {"bulk_entry", "bulk_loop", "bulk_sleep"}) =>
        ENABLED (BulkStart \/ BulkDownload \/ BulkSleep \/ BulkReturn)
  /\ AtReturnSite =>
       /\ ret.total = Len(stock_list)
       /\ ret.success \in 0..Len(stock_list)
       /\ ret.success = Cardinality(StoredPositions)
  /\ (/\ pc = "returned"
      /\ Len(stock_list) = 3
      /\ Met(1, "data")
      /\ Met(4, "empty")
      /\ Met(6, "fetch_error"))
       => /\ ret = [success |-> 1, total |-> 3]
          /\ Cardinality(written) = 1

C1_Witness ==
  /\ pc = "returned"
  /\ Len(stock_list) = 3
  /\ Met(1, "data")
  /\ Met(4, "empty")
  /\ Met(6, "fetch_error")
  /\ ret = [success |-> 1, total |-> 3]
  /\ Cardinality(written) = 1

\* C2: an iteration whose fetch returns an empty series leaves the set of stored
\* files unchanged and does not increment the success counter.
C2_EmptyWritesNothing ==
  [][(/\ pc = "bulk_loop"
      /\ pc' = "bulk_sleep"
      /\ trace'[Len(trace')].op = "download"
      /\ trace'[Len(trace')].res = "empty")
       => (written' = written /\ success_count' = success_count)]_vars

C2_Witness ==
  /\ pc = "bulk_sleep"
  /\ trace[Len(trace)].op = "download"
  /\ trace[Len(trace)].res = "empty"
  /\ StockFilename(save_path, stock_list[idx]) \notin written

C4_NonEmptyCatalog ==
  catalog_source # "none" =>
    /\ nifty_stocks # <<>>
    /\ catalog_source = "fallback" => nifty_stocks = _get_fallback_nifty50

\* The symbol without its trailing exchange suffix, and nothing else removed.
WithoutTrailingSuffix(symbol) ==
  LET n == Len(symbol)
  IN IF n >= 3 /\ SubSeq(symbol, n - 2, n) \in {NS, BO}
     THEN SubSeq(symbol, 1, n - 3)
     ELSE symbol

\* C5: the filename stem download_single_stock uses is the symbol with exactly its
\* trailing exchange suffix removed.
C5_StemIsSymbolWithoutSuffix ==
  \A i \in 1..Len(trace) :
    (trace[i].op = "to_csv" /\ trace[i].sym \notin IndexSymbols)
      => trace[i].stem = WithoutTrailingSuffix(trace[i].sym)

\* C6: run_full_download goes Init, FetchingIndices, FetchingPrimaryGroup,
\* FetchingSecondaryGroup, Summarized in that order (an unhandled crash apart), the
\* summary is emitted only once both group downloads returned and carries their
\* tallies, and Summarized is never left.
C6_PhaseOrder ==
  /\ [][Phase' # Phase =>
          \/ <<Phase, Phase'>> \in PhaseOrder
          \/ Phase' = "Aborted" /\ Phase # "Summarized"]_vars
  /\ [](summary # <<>> =>
          /\ Phase = "Summarized"
          /\ summary[1] = stats
          /\ stats.nifty_total = Len(nifty_stocks)
          /\ stats.sensex_total = Len(sensex_stocks)
          /\ stats.nifty_success = Cardinality(CompletedWrites(nifty_path))
          /\ stats.sensex_success = Cardinality(CompletedWrites(sensex_path))
          /\ Len(SelectSeq(trace, IsStockDownload)) = Len(nifty_stocks) + Len(sensex_stocks))

C6_Witness ==
  /\ pc = "exited"
  /\ top_log = "none"
  /\ summary # <<>>
  /\ summary[1].nifty_total = 50
  /\ summary[1].nifty_success = 49
  /\ summary[1].sensex_success = 29

\* C7: an exception that escapes the run is logged at the top level and the process
\* exits non-zero; a run that completes normally exits zero.
C7_ExitStatus ==
  pc = "exited" =>
    /\ top_log = "critical" => exit_status # 0
    /\ top_log = "none" => exit_status = 0

\* C8: download_market_indices fetches ^NSEI, ^BSESN, ^NSEBANK in that order, once
\* each, whatever the earlier ones met, and <base>/<name>_index.csv is written only
\* for an index whose fetch returned a non-empty series.
C8_Indices ==
  LET order == << <<"^","N","S","E","I">>, <<"^","B","S","E","S","N">>,
                  <<"^","N","S","E","B","A","N","K">> >>
      names == << <<"N","I","F","T","Y","5","0","_","i","n","d","e","x">>,
                  <<"S","E","N","S","E","X","_","i","n","d","e","x">>,
                  <<"B","A","N","K","N","I","F","T","Y","_","i","n","d","e","x">> >>
      fetched == SelectSeq(trace, IsIndexDownload)
  IN caller # "direct" =>
       /\ SymsOf(fetched) = SubSeq(order, 1, index_pos)
       /\ (pc = "indices" /\ index_pos < 3) => ENABLED IndexStep
       /\ pc \notin {"main", "run_init", "indices", "exited"} => index_pos = 3
       /\ \A f \in written :
            f.dir = "data" =>
              \E k \in 1..Len(fetched) : fetched[k].res = "data" /\ f.stem = names[k]
       /\ \A i \in 1..Len(trace) :
            (trace[i].op = "to_csv" /\ trace[i].sym \in IndexSymbols) =>
              /\ trace[i - 1].op = "download"
              /\ trace[i - 1].res = "data"
              /\ trace[i - 1].sym = trace[i].sym
              /\ trace[i].dir = "data"
              /\ \E k \in 1..3 : trace[i].sym = order[k] /\ trace[i].stem = names[k]

C8_Witness ==
  /\ pc = "resolve_nifty"
  /\ Len(trace) = 4
  /\ Met(1, "fetch_error")
  /\ Met(2, "empty")
  /\ Met(3, "data")
  /\ Cardinality(written) = 1

\* C9: bulk_download_stocks sleeps once after every symbol whatever it met, the last
\* one included, so N symbols cost N delays and two consecutive fetches of a group
\* have a delay between them; download_market_indices never sleeps.
C9_Delays ==
  LET sleeps == Cardinality(Positions(IsSleep))
      stocks == Cardinality(Positions(IsStockDownload))
  IN /\ pc # "exited" => sleeps + (IF pc = "bulk_sleep" THEN 1 ELSE 0) = stocks
     /\ pc = "returned" => sleeps = Len(stock_list)
     /\ summary # <<>> => sleeps = Len(nifty_stocks) + Len(sensex_stocks)
     /\ \A i \in 2..Len(trace) :
          IsStockDownload(trace[i]) =>
            \/ IsSleep(trace[i - 1])
            \/ \A j \in 1..(i - 1) : ~IsStockDownload(trace[j])
     /\ pc \in {"main", "run_init", "indices", "resolve_nifty"} => sleeps = 0
     /\ \A i \in 2..Len(trace) : trace[i].sym \in IndexSymbols => ~IsSleep(trace[i - 1])

C9_Witness ==
  /\ pc = "returned"
  /\ Len(stock_list) = 3
  /\ Met(1, "empty")
  /\ Met(3, "data")
  /\ Met(6, "fetch_error")
  /\ IsSleep(trace[Len(trace)])
  /\ Cardinality(Positions(IsSleep)) = 3

\* C10: whenever run_full_download reaches the summary, the reported indices count
\* is 3, however many index files were written.
C10_IndicesCount ==
  summary # <<>> => summary[1].indices_downloaded = 3

C10_Witness ==
  /\ summary # <<>>
  /\ summary[1].indices_downloaded = 3
  /\ {f \in written : f.dir = base_path} = {}
  /\ Cardinality(Positions(IsIndexDownload)) = 3

====
